---- MODULE Spec2Model ----
(***************************************************************************)
(* Model of src/src/05-objects-tasks.js: the CSS selector builder          *)
(* (class CreateElement behind the facade cssSelectorBuilder).             *)
(*                                                                         *)
(* A JavaScript string is a sequence of one-character strings, so that     *)
(* template literals are concatenations (\o), the empty string is << >>,   *)
(* and "is a substring of" can be stated.                                  *)
(*                                                                         *)
(* The file's other tasks, Rectangle and getJSON/fromJSON, are modelled    *)
(* beside it, each with a specification of its own.                        *)
(***************************************************************************)
EXTENDS Naturals, Sequences, FiniteSets

\* Bounds of the model: the instances and the calls (those that return
\* normally) of a run of Spec, and the calls of a run of SpecChain, which
\* follows one instance further.
MaxInst == 3
MaxCalls == 3
MaxChain == 6

\* The sides of a rectangle are 0..MaxSide.
MaxSide == 2

\* The values handed to getJSON: nested to MaxDepth, arrays and objects of up
\* to MaxItems members.
MaxDepth == 1
MaxItems == 2

\* The string arguments the callers pass (the empty string included).
Names == { <<>>, <<"a">> }

\* The combinator tokens the callers pass (the empty string included).
Combinators == { <<>>, <<"+">> }

VARIABLES
    heap,   \* the CreateElement instances created so far, by reference 1..Len(heap)
    calls,  \* per instance, the calls that returned normally, as <<method, argument>>
    last,   \* the latest call: method, receiver, what it threw or returned
    rect,   \* the rectangle a caller made, the arguments it gave, its latest call
    conv    \* a value on its way through getJSON and fromJSON

vars == <<heap, calls, last, rect, conv>>

\* The messages of the two errors the fragment methods throw.
DuplicateMessage ==
    "Element, id and pseudo-element should not occur more then one time inside the selector"

OrderMessage ==
    "Selector parts should be arranged in the following order: element, id, class, attribute, pseudo-class, pseudo-element"

\* The outcome of a call that threw nothing.
NoError == "none"

\* ToBoolean of a JavaScript string, as `if (this.tags)` and `a || b` apply it.
Truthy(s) == s # <<>>

\* The constructor starting this.ids at the id prefix instead of ''.
NewCreateElement_idPrefilled ==
    [ tags |-> <<>>, ids |-> <<"#">>, classes |-> <<>>, attrs |-> <<>>,
      pseudoClasses |-> <<>>, pseudoElements |-> <<>>, combines |-> <<>> ]

\* new CreateElement(): the constructor.
NewCreateElement ==
    [ tags |-> <<>>, ids |-> <<>>, classes |-> <<>>, attrs |-> <<>>,
      pseudoClasses |-> <<>>, pseudoElements |-> <<>>, combines |-> <<>> ]

\* checkFollowing with the `class` case not looking at this.attrs.
checkFollowing_classIgnoresAttrs(o, selector) ==
    CASE selector = "element" ->
           ~( Truthy(o.ids) \/ Truthy(o.classes) \/ Truthy(o.attrs)
              \/ Truthy(o.pseudoClasses) \/ Truthy(o.pseudoElements) )
      [] selector = "id" ->
           ~( Truthy(o.classes) \/ Truthy(o.attrs)
              \/ Truthy(o.pseudoClasses) \/ Truthy(o.pseudoElements) )
      [] selector = "class" ->
           ~( Truthy(o.pseudoClasses) \/ Truthy(o.pseudoElements) )
      [] selector = "attr" ->
           ~( Truthy(o.pseudoClasses) \/ Truthy(o.pseudoElements) )
      [] selector = "pseudoClass" ->
           ~Truthy(o.pseudoElements)
      [] OTHER -> TRUE

\* CreateElement.checkFollowing(selector).
checkFollowing(o, selector) ==
    CASE selector = "element" ->
           ~( Truthy(o.ids) \/ Truthy(o.classes) \/ Truthy(o.attrs)
              \/ Truthy(o.pseudoClasses) \/ Truthy(o.pseudoElements) )
      [] selector = "id" ->
           ~( Truthy(o.classes) \/ Truthy(o.attrs)
              \/ Truthy(o.pseudoClasses) \/ Truthy(o.pseudoElements) )
      [] selector = "class" ->
           ~( Truthy(o.attrs) \/ Truthy(o.pseudoClasses) \/ Truthy(o.pseudoElements) )
      [] selector = "attr" ->
           ~( Truthy(o.pseudoClasses) \/ Truthy(o.pseudoElements) )
      [] selector = "pseudoClass" ->
           ~Truthy(o.pseudoElements)
      [] OTHER -> TRUE

\* What a method call does: what it threw, and the receiver's fields afterwards.
Threw(o, message) == [ thrown |-> message, obj |-> o ]

Returned(o) == [ thrown |-> NoError, obj |-> o ]

\* CreateElement.element(value).
element(o, value) ==
    IF Truthy(o.tags) THEN Threw(o, DuplicateMessage)
    ELSE IF ~checkFollowing(o, "element") THEN Threw(o, OrderMessage)
    ELSE Returned([o EXCEPT !.tags = value])

\* CreateElement.id(value).
id(o, value) ==
    IF Truthy(o.ids) THEN Threw(o, DuplicateMessage)
    ELSE IF ~checkFollowing(o, "id") THEN Threw(o, OrderMessage)
    ELSE Returned([o EXCEPT !.ids = <<"#">> \o value])

\* class with the append moved before the order check.
class_appendsBeforeCheck(o, value) ==
    IF ~checkFollowing(o, "class")
    THEN Threw([o EXCEPT !.classes = o.classes \o <<".">> \o value], OrderMessage)
    ELSE Returned([o EXCEPT !.classes = o.classes \o <<".">> \o value])

\* CreateElement.class(value).
class(o, value) ==
    IF ~checkFollowing(o, "class") THEN Threw(o, OrderMessage)
    ELSE Returned([o EXCEPT !.classes = o.classes \o <<".">> \o value])

\* attr appending to this.attrs, as class and pseudoClass do.
attr_appends(o, value) ==
    IF ~checkFollowing(o, "attr") THEN Threw(o, OrderMessage)
    ELSE Returned([o EXCEPT !.attrs = o.attrs \o <<"[">> \o value \o <<"]">>])

\* CreateElement.attr(value).
attr(o, value) ==
    IF ~checkFollowing(o, "attr") THEN Threw(o, OrderMessage)
    ELSE Returned([o EXCEPT !.attrs = <<"[">> \o value \o <<"]">>])

\* pseudoClass without its order check.
pseudoClass_unchecked(o, value) ==
    Returned([o EXCEPT !.pseudoClasses = o.pseudoClasses \o <<":">> \o value])

\* CreateElement.pseudoClass(value).
pseudoClass(o, value) ==
    IF ~checkFollowing(o, "pseudoClass") THEN Threw(o, OrderMessage)
    ELSE Returned([o EXCEPT !.pseudoClasses = o.pseudoClasses \o <<":">> \o value])

\* CreateElement.pseudoElement(value).
pseudoElement(o, value) ==
    IF Truthy(o.pseudoElements) THEN Threw(o, DuplicateMessage)
    ELSE Returned([o EXCEPT !.pseudoElements = <<":", ":">> \o value])

\* stringify with the id fragment put before the element name.
stringify_idFirst(o) ==
    IF Truthy(o.combines) THEN o.combines
    ELSE o.ids \o o.tags \o o.classes \o o.attrs \o o.pseudoClasses \o o.pseudoElements

\* stringify rendering the fragments after the combined expression.
stringify_fragmentsAfterCombined(o) ==
    o.combines \o o.tags \o o.ids \o o.classes \o o.attrs \o o.pseudoClasses
               \o o.pseudoElements

\* CreateElement.stringify().
stringify(o) ==
    IF Truthy(o.combines) THEN o.combines
    ELSE o.tags \o o.ids \o o.classes \o o.attrs \o o.pseudoClasses \o o.pseudoElements

\* combine without the spaces around the combinator.
combine_noSpaces(o, selector1, combinator, selector2) ==
    Returned([o EXCEPT !.combines =
        stringify(selector1) \o combinator \o stringify(selector2)])

\* CreateElement.combine(selector1, combinator, selector2).
combine(o, selector1, combinator, selector2) ==
    Returned([o EXCEPT !.combines =
        stringify(selector1) \o <<" ">> \o combinator \o <<" ">> \o stringify(selector2)])

----------------------------------------------------------------------------
\* Rectangle(width, height): the object literal, and the parameters its
\* getArea closes over.
Rectangle(width, height) ==
    [ width |-> width, height |-> height,
      closure |-> [ width |-> width, height |-> height ] ]

\* getArea multiplying the object's fields instead of the parameters.
getArea_readsFields(r) == r.width * r.height

\* getArea() { return width * height; }
getArea(r) == r.closure.width * r.closure.height

----------------------------------------------------------------------------
\* JSON values: null, booleans, numbers and strings (s holds the text), arrays
\* (kids) and objects (own keys in order, with their values in kids).
JNull == [ t |-> "null", s |-> << >>, keys |-> << >>, kids |-> << >> ]

JBool(b) == [ t |-> "bool", s |-> IF b THEN <<"t", "r", "u", "e">>
                                     ELSE <<"f", "a", "l", "s", "e">>,
              keys |-> << >>, kids |-> << >> ]

JNum(digits) == [ t |-> "num", s |-> digits, keys |-> << >>, kids |-> << >> ]

JStr(chars) == [ t |-> "str", s |-> chars, keys |-> << >>, kids |-> << >> ]

JArr(items) == [ t |-> "arr", s |-> << >>, keys |-> << >>, kids |-> items ]

JObj(keys, values) == [ t |-> "obj", s |-> << >>, keys |-> keys, kids |-> values ]

Digits == <<"0", "1", "2", "3", "4", "5", "6", "7", "8", "9">>

DigitSet == { Digits[n] : n \in DOMAIN Digits }

Quote == "\""

\* The key under which an array or a string holds its element n (from 0).
IndexKey(n) == << Digits[n + 1] >>

\* The property names written with an object literal's __proto__ syntax.
ProtoKey == <<"_", "_", "p", "r", "o", "t", "o", "_", "_">>

\* JSON.stringify(value), for a value of the JSON types.
RECURSIVE JSONstringify(_), StringifyItems(_, _), StringifyMembers(_, _, _)
JSONstringify(v) ==
    CASE v.t = "null" -> <<"n", "u", "l", "l">>
      [] v.t = "bool" -> v.s
      [] v.t = "num" -> v.s
      [] v.t = "str" -> <<Quote>> \o v.s \o <<Quote>>
      [] v.t = "arr" -> <<"[">> \o StringifyItems(v.kids, 1) \o <<"]">>
      [] v.t = "obj" -> <<"{">> \o StringifyMembers(v.keys, v.kids, 1) \o <<"}">>

StringifyItems(items, n) ==
    IF n > Len(items) THEN << >>
    ELSE (IF n > 1 THEN <<",">> ELSE << >>)
         \o JSONstringify(items[n]) \o StringifyItems(items, n + 1)

StringifyMembers(keys, values, n) ==
    IF n > Len(keys) THEN << >>
    ELSE (IF n > 1 THEN <<",">> ELSE << >>)
         \o <<Quote>> \o keys[n] \o <<Quote, ":">>
         \o JSONstringify(values[n]) \o StringifyMembers(keys, values, n + 1)

\* getJSON(obj).
getJSON(obj) == JSONstringify(obj)

\* JSON.parse(text): a recursive-descent parser; ok is FALSE for a SyntaxError.
At(text, p) == IF p \in DOMAIN text THEN text[p] ELSE "<end>"

Parsed(v, next) == [ ok |-> TRUE, val |-> v, next |-> next ]

NotParsed == [ ok |-> FALSE, val |-> JNull, next |-> 0 ]

Literal(text, p, word) ==
    /\ p + Len(word) - 1 <= Len(text)
    /\ SubSeq(text, p, p + Len(word) - 1) = word

\* The first position from p on that holds no digit.
RECURSIVE EndOfDigits(_, _)
EndOfDigits(text, p) ==
    IF At(text, p) \in DigitSet THEN EndOfDigits(text, p + 1) ELSE p

\* The position of the quote that closes the string whose text starts at p.
RECURSIVE ClosingQuote(_, _)
ClosingQuote(text, p) ==
    IF p > Len(text) THEN 0
    ELSE IF text[p] = Quote THEN p
    ELSE ClosingQuote(text, p + 1)

\* Setting an own property of a parsed object: a repeated key keeps its place.
DefineMember(keys, values, key, value) ==
    IF \E n \in DOMAIN keys : keys[n] = key
    THEN [ keys |-> keys,
           kids |-> [n \in DOMAIN values |-> IF keys[n] = key THEN value ELSE values[n]] ]
    ELSE [ keys |-> Append(keys, key), kids |-> Append(values, value) ]

RECURSIVE ParseValue(_, _), ParseItems(_, _, _), ParseMembers(_, _, _, _)
ParseValue(text, p) ==
    CASE Literal(text, p, <<"n", "u", "l", "l">>) -> Parsed(JNull, p + 4)
      [] Literal(text, p, <<"t", "r", "u", "e">>) -> Parsed(JBool(TRUE), p + 4)
      [] Literal(text, p, <<"f", "a", "l", "s", "e">>) -> Parsed(JBool(FALSE), p + 5)
      [] At(text, p) \in DigitSet ->
           Parsed(JNum(SubSeq(text, p, EndOfDigits(text, p) - 1)), EndOfDigits(text, p))
      [] At(text, p) = Quote ->
           IF ClosingQuote(text, p + 1) = 0 THEN NotParsed
           ELSE Parsed(JStr(SubSeq(text, p + 1, ClosingQuote(text, p + 1) - 1)),
                       ClosingQuote(text, p + 1) + 1)
      [] At(text, p) = "[" ->
           IF At(text, p + 1) = "]" THEN Parsed(JArr(<< >>), p + 2)
           ELSE ParseItems(text, p + 1, << >>)
      [] At(text, p) = "{" ->
           IF At(text, p + 1) = "}" THEN Parsed(JObj(<< >>, << >>), p + 2)
           ELSE ParseMembers(text, p + 1, << >>, << >>)
      [] OTHER -> NotParsed

ParseItems(text, p, items) ==
    LET item == ParseValue(text, p)
    IN  IF ~item.ok THEN NotParsed
        ELSE IF At(text, item.next) = ","
             THEN ParseItems(text, item.next + 1, Append(items, item.val))
        ELSE IF At(text, item.next) = "]"
             THEN Parsed(JArr(Append(items, item.val)), item.next + 1)
        ELSE NotParsed

ParseMembers(text, p, keys, values) ==
    LET key == ParseValue(text, p)
    IN  IF ~key.ok \/ key.val.t # "str" \/ At(text, key.next) # ":" THEN NotParsed
        ELSE LET value == ParseValue(text, key.next + 1)
                 own == DefineMember(keys, values, key.val.s, value.val)
             IN  IF ~value.ok THEN NotParsed
                 ELSE IF At(text, value.next) = ","
                      THEN ParseMembers(text, value.next + 1, own.keys, own.kids)
                 ELSE IF At(text, value.next) = "}"
                      THEN Parsed(JObj(own.keys, own.kids), value.next + 1)
                 ELSE NotParsed

JSONparse(text) ==
    LET top == ParseValue(text, 1)
    IN  IF top.ok /\ top.next = Len(text) + 1 THEN top ELSE NotParsed

\* Object.keys(value) for a parsed value that is not null: the own enumerable
\* string keys of its object (a string's and an array's are their indices).
RECURSIVE IndexKeys(_, _)
IndexKeys(n, len) == IF n >= len THEN << >> ELSE <<IndexKey(n)>> \o IndexKeys(n + 1, len)

ObjectKeys(value) ==
    CASE value.t = "obj" -> value.keys
      [] value.t = "arr" -> IndexKeys(0, Len(value.kids))
      [] value.t = "str" -> IndexKeys(0, Len(value.s))
      [] OTHER -> << >>

\* obj[key], for key among Object.keys(obj).
GetMember(value, key) ==
    CASE value.t = "obj" -> value.kids[CHOOSE n \in DOMAIN value.keys : value.keys[n] = key]
      [] value.t = "arr" ->
           value.kids[CHOOSE n \in DOMAIN value.kids : IndexKey(n - 1) = key]
      [] value.t = "str" ->
           JStr(<< value.s[CHOOSE n \in DOMAIN value.s : IndexKey(n - 1) = key] >>)

\* The prototypes: the one a caller hands over (an ordinary object such as
\* Circle.prototype, or null), and a parsed object made the prototype.
GivenPrototype == "Circle.prototype"

NullPrototype == "null"

ParsedPrototype == "a parsed object"

\* Whether Object.prototype, with its __proto__ accessor, is on the chain.
InheritsObjectPrototype(proto) == proto # NullPrototype

\* result[key] = value, on the ordinary object result: through an inherited
\* __proto__ setter, which replaces the prototype by an object or null and
\* ignores any other value, or else as an own property.
Assign(result, key, value) ==
    IF key = ProtoKey /\ InheritsObjectPrototype(result.proto)
    THEN [result EXCEPT !.proto = IF value.t \in {"obj", "arr"} THEN ParsedPrototype
                                  ELSE IF value.t = "null" THEN NullPrototype
                                  ELSE result.proto]
    ELSE LET own == DefineMember(result.keys, result.kids, key, value)
         IN  [result EXCEPT !.keys = own.keys, !.kids = own.kids]

\* keys.forEach((key) => { result[key] = obj[key]; })
RECURSIVE CopyMembers(_, _, _, _)
CopyMembers(result, obj, keys, n) ==
    IF n > Len(keys) THEN result
    ELSE CopyMembers(Assign(result, keys[n], GetMember(obj, keys[n])), obj, keys, n + 1)

\* What fromJSON returns, or what it threw.
NoResult == [ thrown |-> NoError, proto |-> NullPrototype, keys |-> << >>, kids |-> << >> ]

\* fromJSON(proto, json).
fromJSON(proto, json) ==
    LET obj == JSONparse(json)
        result == [NoResult EXCEPT !.proto = proto]
    IN  IF ~obj.ok THEN [NoResult EXCEPT !.thrown = "SyntaxError"]
        ELSE IF obj.val.t = "null" THEN [NoResult EXCEPT !.thrown = "TypeError"]
        ELSE CopyMembers(result, obj.val, ObjectKeys(obj.val), 1)

----------------------------------------------------------------------------
\* The callers: calls on an existing instance, and calls through the facade.

FragmentMethods == { "element", "id", "class", "attr", "pseudoClass", "pseudoElement" }

RECURSIVE TotalCalls(_)
TotalCalls(n) == IF n = 0 THEN 0 ELSE Len(calls[n]) + TotalCalls(n - 1)

\* Calls that return normally are logged; the log is what bounds a run.
Within(maxInst, maxCalls) ==
    /\ Len(heap) <= maxInst
    /\ TotalCalls(Len(calls)) <= maxCalls

InBounds == Within(MaxInst, MaxCalls)

InChain == Within(1, MaxChain)

NoCall ==
    [ op |-> "none", facade |-> FALSE, this |-> 0,
      thrown |-> NoError, ret |-> 0, str |-> <<>> ]

\* No rectangle made yet.
NoRectangle ==
    [ made |-> FALSE, obj |-> Rectangle(0, 0), args |-> <<0, 0>>,
      op |-> "none", area |-> 0 ]

\* No value under conversion.
NoConversion == [ pc |-> "idle" ]

Init ==
    /\ heap = << >>
    /\ calls = << >>
    /\ last = NoCall
    /\ rect = NoRectangle
    /\ conv = NoConversion

\* A method that works on a copy of the receiver and returns the copy.
Invoke_returnsCopy(this, op, value, res) ==
    /\ heap' = IF res.thrown = NoError THEN Append(heap, res.obj) ELSE heap
    /\ calls' = IF res.thrown = NoError
                THEN Append(calls, Append(calls[this], <<op, value>>))
                ELSE calls
    /\ last' = [NoCall EXCEPT !.op = op, !.this = this, !.thrown = res.thrown,
                              !.ret = IF res.thrown = NoError THEN Len(heap) + 1 ELSE 0]
    /\ UNCHANGED <<rect, conv>>

\* instance.<op>(value): the method runs on the receiver and returns `this`,
\* or throws and leaves the receiver as the method left it.
Invoke(this, op, value, res) ==
    /\ heap' = [heap EXCEPT ![this] = res.obj]
    /\ calls' = IF res.thrown = NoError
                THEN [calls EXCEPT ![this] = Append(@, <<op, value>>)]
                ELSE calls
    /\ last' = [NoCall EXCEPT !.op = op, !.this = this, !.thrown = res.thrown,
                              !.ret = IF res.thrown = NoError THEN this ELSE 0]
    /\ UNCHANGED <<rect, conv>>

\* A facade that keeps one instance and starts every chain on it.
Create_sharedInstance(op, value, res) ==
    /\ heap' = IF res.thrown # NoError THEN heap
               ELSE IF heap = << >> THEN << res.obj >>
               ELSE [heap EXCEPT ![1] = res.obj]
    /\ calls' = IF res.thrown # NoError THEN calls
                ELSE IF heap = << >> THEN << << <<op, value>> >> >>
                ELSE [calls EXCEPT ![1] = << <<op, value>> >>]
    /\ last' = [NoCall EXCEPT !.op = op, !.facade = TRUE, !.thrown = res.thrown,
                              !.this = IF res.thrown = NoError THEN 1 ELSE 0,
                              !.ret = IF res.thrown = NoError THEN 1 ELSE 0]
    /\ UNCHANGED <<rect, conv>>

\* cssSelectorBuilder.<op>(value): new CreateElement().<op>(value). The caller
\* gets the new instance only when the method returns.
Create(op, value, res) ==
    /\ heap' = IF res.thrown = NoError THEN Append(heap, res.obj) ELSE heap
    /\ calls' = IF res.thrown = NoError THEN Append(calls, << <<op, value>> >>) ELSE calls
    /\ last' = [NoCall EXCEPT !.op = op, !.facade = TRUE, !.thrown = res.thrown,
                              !.this = IF res.thrown = NoError THEN Len(heap) + 1 ELSE 0,
                              !.ret = IF res.thrown = NoError THEN Len(heap) + 1 ELSE 0]
    /\ UNCHANGED <<rect, conv>>

Element(this, value) == Invoke(this, "element", value, element(heap[this], value))

Id(this, value) == Invoke(this, "id", value, id(heap[this], value))

Class(this, value) == Invoke(this, "class", value, class(heap[this], value))

Attr(this, value) == Invoke(this, "attr", value, attr(heap[this], value))

PseudoClass(this, value) ==
    Invoke(this, "pseudoClass", value, pseudoClass(heap[this], value))

PseudoElement(this, value) ==
    Invoke(this, "pseudoElement", value, pseudoElement(heap[this], value))

\* instance.combine(selector1, combinator, selector2), on an existing instance.
Combine(this, selector1, combinator, selector2) ==
    Invoke(this, "combine", combinator,
           combine(heap[this], heap[selector1], combinator, heap[selector2]))

\* stringify keeping its result in this.combines.
Stringify_keepsResult(this) ==
    /\ heap' = [heap EXCEPT ![this].combines = stringify(heap[this])]
    /\ calls' = calls
    /\ last' = [NoCall EXCEPT !.op = "stringify", !.this = this,
                              !.str = stringify(heap[this])]
    /\ UNCHANGED <<rect, conv>>

\* instance.stringify(): reads the fields and returns the string.
Stringify(this) ==
    /\ heap' = heap
    /\ calls' = calls
    /\ last' = [NoCall EXCEPT !.op = "stringify", !.this = this,
                              !.str = stringify(heap[this])]
    /\ UNCHANGED <<rect, conv>>

BuilderElement(value) == Create("element", value, element(NewCreateElement, value))

BuilderId(value) == Create("id", value, id(NewCreateElement, value))

BuilderClass(value) == Create("class", value, class(NewCreateElement, value))

BuilderAttr(value) == Create("attr", value, attr(NewCreateElement, value))

BuilderPseudoClass(value) ==
    Create("pseudoClass", value, pseudoClass(NewCreateElement, value))

BuilderPseudoElement(value) ==
    Create("pseudoElement", value, pseudoElement(NewCreateElement, value))

\* cssSelectorBuilder.combine(selector1, combinator, selector2).
BuilderCombine(selector1, combinator, selector2) ==
    Create("combine", combinator,
           combine(NewCreateElement, heap[selector1], combinator, heap[selector2]))

\* Any caller: every facade entry point and every method, on any instance.
Next ==
    \/ \E value \in Names : BuilderElement(value) /\ InBounds'
    \/ \E value \in Names : BuilderId(value) /\ InBounds'
    \/ \E value \in Names : BuilderClass(value) /\ InBounds'
    \/ \E value \in Names : BuilderAttr(value) /\ InBounds'
    \/ \E value \in Names : BuilderPseudoClass(value) /\ InBounds'
    \/ \E value \in Names : BuilderPseudoElement(value) /\ InBounds'
    \/ \E s1 \in DOMAIN heap, s2 \in DOMAIN heap, c \in Combinators :
          BuilderCombine(s1, c, s2) /\ InBounds'
    \/ \E this \in DOMAIN heap, value \in Names : Element(this, value) /\ InBounds'
    \/ \E this \in DOMAIN heap, value \in Names : Id(this, value) /\ InBounds'
    \/ \E this \in DOMAIN heap, value \in Names : Class(this, value) /\ InBounds'
    \/ \E this \in DOMAIN heap, value \in Names : Attr(this, value) /\ InBounds'
    \/ \E this \in DOMAIN heap, value \in Names : PseudoClass(this, value) /\ InBounds'
    \/ \E this \in DOMAIN heap, value \in Names : PseudoElement(this, value) /\ InBounds'
    \/ \E this \in DOMAIN heap, s1 \in DOMAIN heap, s2 \in DOMAIN heap, c \in Combinators :
          Combine(this, s1, c, s2) /\ InBounds'
    \/ \E this \in DOMAIN heap : Stringify(this)

Spec == Init /\ [][Next]_vars

\* One fragment chain: a facade call starts it, and every later call is a
\* fragment method or stringify on its instance.
NextChain ==
    \/ \E value \in Names : BuilderElement(value) /\ InChain'
    \/ \E value \in Names : BuilderId(value) /\ InChain'
    \/ \E value \in Names : BuilderClass(value) /\ InChain'
    \/ \E value \in Names : BuilderAttr(value) /\ InChain'
    \/ \E value \in Names : BuilderPseudoClass(value) /\ InChain'
    \/ \E value \in Names : BuilderPseudoElement(value) /\ InChain'
    \/ \E this \in DOMAIN heap, value \in Names : Element(this, value) /\ InChain'
    \/ \E this \in DOMAIN heap, value \in Names : Id(this, value) /\ InChain'
    \/ \E this \in DOMAIN heap, value \in Names : Class(this, value) /\ InChain'
    \/ \E this \in DOMAIN heap, value \in Names : Attr(this, value) /\ InChain'
    \/ \E this \in DOMAIN heap, value \in Names : PseudoClass(this, value) /\ InChain'
    \/ \E this \in DOMAIN heap, value \in Names : PseudoElement(this, value) /\ InChain'
    \/ \E this \in DOMAIN heap : Stringify(this)

SpecChain == Init /\ [][NextChain]_vars

----------------------------------------------------------------------------
\* A caller of Rectangle: it makes one, reassigns its fields, asks its area.

Sides == 0 .. MaxSide

\* const r = new Rectangle(width, height)
NewRectangle(width, height) ==
    /\ ~rect.made
    /\ rect' = [ made |-> TRUE, obj |-> Rectangle(width, height),
                 args |-> <<width, height>>, op |-> "new", area |-> 0 ]
    /\ UNCHANGED <<heap, calls, last, conv>>

\* r.width = value
SetWidth(value) ==
    /\ rect.made
    /\ rect' = [rect EXCEPT !.obj.width = value, !.op = "set", !.area = 0]
    /\ UNCHANGED <<heap, calls, last, conv>>

\* r.height = value
SetHeight(value) ==
    /\ rect.made
    /\ rect' = [rect EXCEPT !.obj.height = value, !.op = "set", !.area = 0]
    /\ UNCHANGED <<heap, calls, last, conv>>

\* r.getArea()
GetArea ==
    /\ rect.made
    /\ rect' = [rect EXCEPT !.op = "getArea", !.area = getArea(rect.obj)]
    /\ UNCHANGED <<heap, calls, last, conv>>

NextRect ==
    \/ \E width \in Sides, height \in Sides : NewRectangle(width, height)
    \/ \E value \in Sides : SetWidth(value)
    \/ \E value \in Sides : SetHeight(value)
    \/ GetArea

SpecRect == Init /\ [][NextRect]_vars

----------------------------------------------------------------------------
\* A caller of getJSON and fromJSON: it serializes a value of the JSON types
\* and rebuilds an object with a prototype from the text.

Primitives == { JNull, JBool(TRUE), JNum(<<"1">>), JStr(<<"a">>) }

PropertyNames == { <<"a">>, ProtoKey }

Prototypes == { GivenPrototype, NullPrototype }

SeqsUpTo(S, n) == UNION { [1 .. k -> S] : k \in 0 .. n }

DistinctKeys == { ks \in SeqsUpTo(PropertyNames, MaxItems) :
                     \A m \in DOMAIN ks, n \in DOMAIN ks : ks[m] = ks[n] => m = n }

RECURSIVE PlainData(_)
PlainData(depth) ==
    IF depth = 0 THEN Primitives
    ELSE LET inner == PlainData(depth - 1)
         IN  Primitives
             \cup { JArr(items) : items \in SeqsUpTo(inner, MaxItems) }
             \cup UNION { { JObj(ks, values) : values \in [DOMAIN ks -> inner] } :
                            ks \in DistinctKeys }

InitJSON ==
    /\ heap = << >>
    /\ calls = << >>
    /\ last = NoCall
    /\ rect = NoRectangle
    /\ \E v \in PlainData(MaxDepth), proto \in Prototypes :
          conv = [ pc |-> "start", v |-> v, proto |-> proto,
                   json |-> << >>, result |-> NoResult ]

\* const json = getJSON(v)
GetJSON ==
    /\ conv.pc = "start"
    /\ conv' = [conv EXCEPT !.pc = "serialized", !.json = getJSON(conv.v)]
    /\ UNCHANGED <<heap, calls, last, rect>>

\* const result = fromJSON(proto, json)
FromJSON ==
    /\ conv.pc = "serialized"
    /\ conv' = [conv EXCEPT !.pc = "done", !.result = fromJSON(conv.proto, conv.json)]
    /\ UNCHANGED <<heap, calls, last, rect>>

NextJSON == GetJSON \/ FromJSON

SpecJSON == InitJSON /\ [][NextJSON]_vars

----------------------------------------------------------------------------
\* What the claims speak of, read off the log of the calls that returned.

\* The canonical order of the fragment kinds.
Rank(kind) ==
    CASE kind = "element" -> 1
      [] kind = "id" -> 2
      [] kind = "class" -> 3
      [] kind = "attr" -> 4
      [] kind = "pseudoClass" -> 5
      [] kind = "pseudoElement" -> 6

\* The calls of one kind that returned on instance i, in call order.
KindCalls(i, kind) == SelectSeq(calls[i], LAMBDA e : e[1] = kind)

\* A fragment of this kind is set on instance i: such a call has returned.
KindSet(i, kind) == KindCalls(i, kind) # << >>

\* A fragment of a kind strictly later in the canonical order is set.
LaterKindSet(i, kind) ==
    \E later \in FragmentMethods : Rank(later) > Rank(kind) /\ KindSet(i, later)

\* combine has returned on instance i.
Combined(i) == KindSet(i, "combine")

\* The call o.<kind>(value).
Apply(kind, o, value) ==
    CASE kind = "element" -> element(o, value)
      [] kind = "id" -> id(o, value)
      [] kind = "class" -> class(o, value)
      [] kind = "attr" -> attr(o, value)
      [] kind = "pseudoClass" -> pseudoClass(o, value)
      [] kind = "pseudoElement" -> pseudoElement(o, value)

\* prefix + argument + suffix of every call of a log, concatenated in call order.
RECURSIVE Fragments(_, _, _)
Fragments(log, prefix, suffix) ==
    IF log = << >> THEN << >>
    ELSE prefix \o Head(log)[2] \o suffix \o Fragments(Tail(log), prefix, suffix)

\* The fragments of instance i's calls, kind by kind in the canonical order.
Canonical(i) ==
       Fragments(KindCalls(i, "element"), << >>, << >>)
    \o Fragments(KindCalls(i, "id"), <<"#">>, << >>)
    \o Fragments(KindCalls(i, "class"), <<".">>, << >>)
    \o Fragments(KindCalls(i, "attr"), <<"[">>, <<"]">>)
    \o Fragments(KindCalls(i, "pseudoClass"), <<":">>, << >>)
    \o Fragments(KindCalls(i, "pseudoElement"), <<":", ":">>, << >>)

\* C1: on every instance any run reaches, and for every argument, element,
\* id, class, attr and pseudoClass throw when a fragment of a kind later in the
\* canonical order is set, and class, attr and pseudoClass return when none is,
\* whichever earlier kinds were skipped.
C1_OrderingRule ==
    \A i \in DOMAIN heap, value \in Names :
        /\ \A kind \in FragmentMethods \ {"pseudoElement"} :
              LaterKindSet(i, kind) => Apply(kind, heap[i], value).thrown # NoError
        /\ \A kind \in {"class", "attr", "pseudoClass"} :
              ~LaterKindSet(i, kind) => Apply(kind, heap[i], value).thrown = NoError

\* element then attr directly has returned, and class on that instance threw.
C1_Witness ==
    /\ last.op = "class" /\ last.thrown = OrderMessage
    /\ last.this \in DOMAIN heap
    /\ calls[last.this] = << <<"element", <<"a">> >>, <<"attr", <<"a">> >> >>

\* C2: element, id and pseudoElement each return at most once per instance,
\* whatever the names (the empty string included).
C2_SetAtMostOnce ==
    \A i \in DOMAIN heap :
        \A kind \in {"element", "id", "pseudoElement"} : Len(KindCalls(i, kind)) <= 1

\* C3: an uncombined instance on which attr returned at most once renders the
\* fragments of its calls kind by kind in the canonical order, each kind in
\* call order. (element can return again only while every name given so far is
\* empty, so the names of its calls concatenate to the one that is set.)
C3_RendersCanonical ==
    \A i \in DOMAIN heap :
        (~Combined(i) /\ Len(KindCalls(i, "attr")) <= 1)
            => stringify(heap[i]) = Canonical(i)

\* A chain through all six kinds has been built and rendered.
C3_Witness ==
    /\ last.op = "stringify"
    /\ last.this \in DOMAIN heap
    /\ \A kind \in FragmentMethods : KindSet(last.this, kind)
    /\ last.str = <<"a", "#", "a", ".", "a", "[", "a", "]", ":", "a", ":", ":", "a">>

\* C4: a fragment call that throws leaves every field of every instance, and so
\* every stringify() result, as it was.
C4_FailedCallIsNoOp ==
    [][ (last'.op \in FragmentMethods /\ last'.thrown # NoError)
            => /\ heap' = heap
               /\ \A i \in DOMAIN heap : stringify(heap'[i]) = stringify(heap[i]) ]_vars

\* A fragment call threw on a combined instance that has fragments set.
C4_Witness ==
    /\ last.op \in FragmentMethods /\ last.thrown # NoError
    /\ last.this \in DOMAIN heap
    /\ Truthy(heap[last.this].tags) /\ Truthy(heap[last.this].attrs)
    /\ Truthy(heap[last.this].combines)

\* C5: combine(a, c, b), through the facade or on any receiver, renders as
\* a's string, a space, c, a space, b's string, for all instances a and b a run
\* reaches, combined ones included.
C5_CombineRenders ==
    \A s1 \in DOMAIN heap, s2 \in DOMAIN heap, c \in Combinators :
        \A receiver \in {NewCreateElement} \cup {heap[i] : i \in DOMAIN heap} :
            stringify(combine(receiver, heap[s1], c, heap[s2]).obj)
                = stringify(heap[s1]) \o <<" ">> \o c \o <<" ">> \o stringify(heap[s2])

\* The facade has combined a combined selector with a fragment chain.
C5_Witness ==
    /\ last.op = "combine" /\ last.facade
    /\ last.ret \in DOMAIN heap
    /\ \E s1 \in DOMAIN heap :
          /\ Combined(s1)
          /\ heap[s1].combines = <<"a", " ", "+", " ", "a">>
    /\ heap[last.ret].combines = <<"a", " ", "+", " ", "a", " ", "+", " ", "a">>

\* C6: an instance on which combine has returned renders its combined
\* expression, and a fragment call on it, returning or throwing, changes
\* neither that expression nor what stringify() returns.
C6_CombinedIsTerminal ==
    \A i \in DOMAIN heap :
        Combined(i) =>
            /\ stringify(heap[i]) = heap[i].combines
            /\ \A kind \in FragmentMethods, value \in Names :
                  LET res == Apply(kind, heap[i], value)
                  IN  /\ res.obj.combines = heap[i].combines
                      /\ stringify(res.obj) = stringify(heap[i])

\* combine with the empty combinator, then class, which returned, then stringify.
C6_Witness ==
    /\ last.op = "stringify"
    /\ last.this \in DOMAIN heap
    /\ calls[last.this] = << <<"combine", << >> >>, <<"class", <<"a">> >> >>
    /\ heap[last.this].classes = <<".", "a">>
    /\ last.str = <<"a", " ", " ", "a">>

\* s holds the fragments, in this order and without overlap, from position from on.
RECURSIVE OccurInOrder(_, _, _)
OccurInOrder(frags, s, from) ==
    \/ frags = << >>
    \/ /\ frags # << >>
       /\ \E p \in from .. (Len(s) + 1 - Len(Head(frags))) :
             /\ SubSeq(s, p, p + Len(Head(frags)) - 1) = Head(frags)
             /\ OccurInOrder(Tail(frags), s, p + Len(Head(frags)))

\* s holds t.
Contains(s, t) == OccurInOrder(<<t>>, s, 1)

\* The fragments, one per call, of a log of calls of one kind.
FragmentList(log, prefix, suffix) ==
    [n \in DOMAIN log |-> prefix \o log[n][2] \o suffix]

\* C7: class, attr and pseudoClass can each occur several times: an uncombined
\* instance renders the fragment of every such call that returned, in call
\* order within its kind.
C7_EveryFragmentRendered ==
    \A i \in DOMAIN heap :
        ~Combined(i) =>
            /\ OccurInOrder(FragmentList(KindCalls(i, "class"), <<".">>, << >>),
                            stringify(heap[i]), 1)
            /\ OccurInOrder(FragmentList(KindCalls(i, "attr"), <<"[">>, <<"]">>),
                            stringify(heap[i]), 1)
            /\ OccurInOrder(FragmentList(KindCalls(i, "pseudoClass"), <<":">>, << >>),
                            stringify(heap[i]), 1)

\* The latest call of a log, as a log.
Latest(log) == IF log = << >> THEN << >> ELSE << log[Len(log)] >>

C9_StringifyIsPure ==
    [][ last'.op = "stringify"
            => /\ heap' = heap
               /\ last'.str = stringify(heap[last'.this])
               /\ (last.op = "stringify" /\ last.this = last'.this)
                     => last'.str = last.str ]_vars

\* stringify() has returned 'a#a'.
C9_Witness ==
    /\ last.op = "stringify"
    /\ last.this \in DOMAIN heap
    /\ last.str = <<"a", "#", "a">>
    /\ stringify(heap[last.this]) = last.str

\* The call this.<kind>(value), as a step.
Called(kind, this, value) ==
    CASE kind = "element" -> Element(this, value)
      [] kind = "id" -> Id(this, value)
      [] kind = "class" -> Class(this, value)
      [] kind = "attr" -> Attr(this, value)
      [] kind = "pseudoClass" -> PseudoClass(this, value)
      [] kind = "pseudoElement" -> PseudoElement(this, value)

\* C10: element, id or pseudoElement called again on an instance where it has
\* returned throws the duplicate error; a fragment method called while a
\* later kind is set and its own kind is not throws the order error.
C10_ErrorKinds ==
    [][ \A this \in DOMAIN heap, value \in Names :
          /\ \A kind \in {"element", "id", "pseudoElement"} :
                (Called(kind, this, value) /\ KindSet(this, kind))
                    => last'.thrown = DuplicateMessage
          /\ \A kind \in FragmentMethods \ {"pseudoElement"} :
                (Called(kind, this, value) /\ LaterKindSet(this, kind)
                                           /\ ~KindSet(this, kind))
                    => last'.thrown = OrderMessage ]_vars

\* C11: combine only starts a chain: no step changes the combined expression
\* of an instance that exists, so a fragment chain never starts rendering a
\* combined string and a combined instance's string never changes.
C11_CombineOnlyStartsChains ==
    [][ \A i \in DOMAIN heap :
            /\ heap'[i].combines = heap[i].combines
            /\ (Truthy(heap[i].combines) \/ Truthy(heap'[i].combines))
                  => stringify(heap'[i]) = stringify(heap[i]) ]_vars

\* C12: a facade call that returns adds a fresh instance and leaves every
\* existing one (the operands of combine included) as it was; a fragment call
\* on an instance changes no other instance, so no other stringify() result.
C12_NoSharedState ==
    [][ /\ (last'.facade /\ last'.thrown = NoError)
              => /\ Len(heap') = Len(heap) + 1
                 /\ last'.ret = Len(heap) + 1
                 /\ \A i \in DOMAIN heap : heap'[i] = heap[i]
        /\ (~last'.facade /\ last'.op \in FragmentMethods)
              => \A i \in DOMAIN heap \ {last'.this} :
                    /\ heap'[i] = heap[i]
                    /\ stringify(heap'[i]) = stringify(heap[i]) ]_vars

\* The facade combined instance 1 with itself, then class returned on
\* instance 1, and the combined instance still renders 'a + a'.
C12_Witness ==
    /\ Len(heap) = 2
    /\ last.op = "class" /\ last.this = 1 /\ last.thrown = NoError
    /\ calls[2] = << <<"combine", <<"+">> >> >>
    /\ heap[1].classes = <<".", "a">>
    /\ stringify(heap[1]) = <<"a", ".", "a">>
    /\ stringify(heap[2]) = <<"a", " ", "+", " ", "a">>

\* C14: pseudoElement returns on every uncombined instance on which it has
\* not returned yet, whatever else is set; once it has returned, each of the
\* six fragment methods throws and leaves the instance, so its rendering, as
\* it was.
C14_PseudoElementFreezes ==
    \A i \in DOMAIN heap :
        ~Combined(i) =>
            \A value \in Names :
                /\ ~KindSet(i, "pseudoElement")
                      => pseudoElement(heap[i], value).thrown = NoError
                /\ KindSet(i, "pseudoElement")
                      => \A kind \in FragmentMethods :
                            /\ Apply(kind, heap[i], value).thrown # NoError
                            /\ Apply(kind, heap[i], value).obj = heap[i]
                            /\ stringify(Apply(kind, heap[i], value).obj)
                                  = stringify(heap[i])

\* pseudoElement returned after element and class, and pseudoClass then threw.
C14_Witness ==
    /\ last.op = "pseudoClass" /\ last.thrown = OrderMessage
    /\ last.this \in DOMAIN heap
    /\ calls[last.this] = << <<"element", <<"a">> >>, <<"class", <<"a">> >>,
                             <<"pseudoElement", <<"a">> >> >>
    /\ stringify(heap[last.this]) = <<"a", ".", "a", ":", ":", "a">>

\* C15: element or id called where it has returned before and a later kind is
\* set throws the duplicate error, not the order error.
C15_DuplicateBeforeOrder ==
    [][ \A this \in DOMAIN heap, value \in Names :
          \A kind \in {"element", "id"} :
              (Called(kind, this, value) /\ KindSet(this, kind)
                                         /\ LaterKindSet(this, kind))
                  => last'.thrown = DuplicateMessage ]_vars

\* C16: a fragment call that returns returns its receiver, creates no
\* instance, and leaves the receiver holding the new fragment, so every
\* reference to the receiver renders it.
C16_ChainingMutatesInPlace ==
    [][ \A this \in DOMAIN heap, value \in Names, kind \in FragmentMethods :
          (Called(kind, this, value) /\ last'.thrown = NoError)
              => /\ last'.ret = this
                 /\ Len(heap') = Len(heap)
                 /\ heap'[this] = Apply(kind, heap[this], value).obj
                 /\ calls'[this] = Append(calls[this], <<kind, value>>) ]_vars

\* element('a') started a chain, id('a') returned on it, and the instance
\* element returned renders 'a#a'.
C16_Witness ==
    /\ Len(heap) = 1
    /\ last.op = "id" /\ last.thrown = NoError /\ ~last.facade
    /\ last.ret = 1 /\ last.this = 1
    /\ calls[1] = << <<"element", <<"a">> >>, <<"id", <<"a">> >> >>
    /\ stringify(heap[last.ret]) = <<"a", "#", "a">>

\* C17: a facade call never throws, whatever the argument: every fragment
\* method returns on a new instance, and a call that throws is a method call
\* on an instance on which a call has returned before.
C17_FacadeCallsSucceed ==
    /\ \A kind \in FragmentMethods, value \in Names :
          Apply(kind, NewCreateElement, value).thrown = NoError
    /\ last.facade => (last.thrown = NoError /\ last.ret = Len(heap))
    /\ last.thrown # NoError
          => (last.this \in DOMAIN heap /\ calls[last.this] # << >>)

\* The facade's pseudoElement has returned a new instance.
C17_Witness ==
    /\ last.facade /\ last.op = "pseudoElement" /\ last.thrown = NoError
    /\ last.ret = Len(heap)
    /\ calls[last.ret] = << <<"pseudoElement", <<"a">> >> >>

\* C18: a rectangle made by Rectangle(w, h) has width w and height h when
\* made, and getArea() returns w * h of those arguments on every call, also
\* after width or height has been reassigned.
C18_AreaOfConstructionArguments ==
    /\ rect.op = "new" => (rect.obj.width = rect.args[1] /\ rect.obj.height = rect.args[2])
    /\ rect.made => getArea(rect.obj) = rect.args[1] * rect.args[2]
    /\ rect.op = "getArea" => rect.area = rect.args[1] * rect.args[2]

\* Rectangle(1, 2) was made, both fields were reassigned, and getArea() returned 2.
C18_Witness ==
    /\ rect.op = "getArea"
    /\ rect.args = <<1, 2>>
    /\ rect.obj.width = 2 /\ rect.obj.height = 0
    /\ rect.area = 2

\* The own enumerable fields of a value, as the set of <<key, value>>.
OwnFields(keys, values) == { <<keys[n], values[n]>> : n \in DOMAIN keys }

FieldsOf(v) ==
    IF v.t = "null" THEN { }
    ELSE { <<key, GetMember(v, key)>> : key \in { ObjectKeys(v)[n] : n \in DOMAIN ObjectKeys(v) } }

\* C13: for every value v of the JSON types (null, primitives, arrays, objects
\* with any keys, '__proto__' among them) and every prototype proto,
\* fromJSON(proto, getJSON(v)) throws nothing and returns an object whose own
\* enumerable fields are v's and whose prototype is proto.
C13_JSONRoundTrip ==
    conv.pc = "done" =>
        /\ conv.result.thrown = NoError
        /\ OwnFields(conv.result.keys, conv.result.kids) = FieldsOf(conv.v)
        /\ conv.result.proto = conv.proto

====
